---- MODULE Spec2Model ----
(***************************************************************************)
(* CBOWLoader (w2v_cbow_dataloader.hpp): a corpus of index-encoded         *)
(* sentences, a vocabulary word -> (index, frequency), and a cursor        *)
(* (currentSentence_, currentWord_) that walks the corpus and yields       *)
(* context/label windows.                                                  *)
(*                                                                         *)
(* A string is a sequence of one-character strings; a word is a string.    *)
(* Positions are 0-based as in the source; the k-th element of a C++       *)
(* vector v is v[k + 1] here.                                              *)
(***************************************************************************)
EXTENDS Integers, Sequences, FiniteSets, TLC

VARIABLES
  window_size_,      \* context words on each side, fixed at construction
  data_,             \* std::vector<std::vector<uint64_t>>
  vocab_,            \* std::map<string, pair<index, frequency>>
  currentSentence_,
  currentWord_,
  fault,             \* "none", or the undefined behaviour the last call ran into
  last,              \* the last call: [op, arg, ret]
  usage,             \* "fresh": only AddData and GetNext were called so far;
                     \* "shuffled": Reset was too; "any": SetOffset or RemoveInfrequent was
  calls              \* GetNext calls made while fresh

vars == <<window_size_, data_, vocab_, currentSentence_, currentWord_,
          fault, last, usage, calls>>

-----------------------------------------------------------------------------
(* Bounds of the model *)

MaxWindow == 1      \* window_size_ ranges over 0..MaxWindow
MaxSent   == 2      \* AddData is called while the corpus has fewer sentences
MaxOffset == 3      \* SetOffset is called with 0..MaxOffset
MaxMin    == 2      \* RemoveInfrequent is called with 0..MaxMin

\* What an out-of-bounds read of a vector element may yield
Garbage == {0, 9}

\* Raw strings handed to AddData
Inputs ==
  { <<"1", ",">>,
    <<"b", " ", "A">>,
    <<"a", " ", "b", "a", " ", "a">>,
    <<"B", ",", "a", " ", " ", "a", "b", "1", "b">>,
    <<" ", "a", " ", "b", " ", "a", " ", "a", " ", "B">> }

-----------------------------------------------------------------------------
(* Characters: std::isalpha, std::tolower and the order of std::string *)

IsAlpha(c) == c \in {"a", "b", "A", "B"}

ToLower(c) == CASE c = "A" -> "a"
                [] c = "B" -> "b"
                [] OTHER   -> c

Ord(c) == CASE c = " " -> 32
            [] c = "," -> 44
            [] c = "1" -> 49
            [] c = "A" -> 65
            [] c = "B" -> 66
            [] c = "a" -> 97
            [] c = "b" -> 98

\* std::string operator<, the key order of vocab_
RECURSIVE LexLess(_, _)
LexLess(u, v) ==
  IF u = <<>> THEN v # <<>>
  ELSE IF v = <<>> THEN FALSE
  ELSE IF Head(u) = Head(v) THEN LexLess(Tail(u), Tail(v))
  ELSE Ord(Head(u)) < Ord(Head(v))

LexMin(S) == CHOOSE k \in S : \A j \in S : j = k \/ LexLess(k, j)
LexMax(S) == CHOOSE k \in S : \A j \in S : j = k \/ LexLess(j, k)

-----------------------------------------------------------------------------
(* PreprocessString: non-letters become blanks, letters are lowercased,    *)
(* then the text is read word by word (ss >> word).                        *)

\* One pass of the extraction loop over the remaining characters: blanks
\* end the word being read, other characters extend it.
\* ReadWords losing a word that the end of the text terminates
RECURSIVE ReadWords_DropsLast(_, _, _)
ReadWords_DropsLast(rest, word, words) ==
  IF rest = <<>>
    THEN words
  ELSE IF Head(rest) = " "
    THEN ReadWords_DropsLast(Tail(rest), <<>>,
                             IF word = <<>> THEN words ELSE Append(words, word))
  ELSE ReadWords_DropsLast(Tail(rest), Append(word, Head(rest)), words)

RECURSIVE ReadWords(_, _, _)
ReadWords(rest, word, words) ==
  IF rest = <<>>
    THEN IF word = <<>> THEN words ELSE Append(words, word)
  ELSE IF Head(rest) = " "
    THEN ReadWords(Tail(rest), <<>>,
                   IF word = <<>> THEN words ELSE Append(words, word))
  ELSE ReadWords(Tail(rest), Append(word, Head(rest)), words)

PreprocessString(s) ==
  LET result == [i \in 1..Len(s) |->
                   IF IsAlpha(s[i]) THEN ToLower(s[i]) ELSE " "]
  IN  ReadWords(result, <<>>, <<>>)

-----------------------------------------------------------------------------
(* StringsToIndexes: vocab_.insert gives an unseen word the index          *)
(* vocab_.size() and frequency 0; the frequency is then incremented.       *)

\* InsertEach numbering new words from 1
RECURSIVE InsertEach_FromOne(_, _, _)
InsertEach_FromOne(v, strings, indexes) ==
  IF strings = <<>> THEN [vocab |-> v, indexes |-> indexes]
  ELSE LET s  == Head(strings)
           v1 == IF s \in DOMAIN v THEN v
                 ELSE v @@ (s :> [first |-> Cardinality(DOMAIN v) + 1, second |-> 0])
           v2 == [v1 EXCEPT ![s].second = @ + 1]
       IN  InsertEach_FromOne(v2, Tail(strings), Append(indexes, v1[s].first))

\* InsertEach that counts a word when it is inserted and not when it is seen again
RECURSIVE InsertEach_CountsOnce(_, _, _)
InsertEach_CountsOnce(v, strings, indexes) ==
  IF strings = <<>> THEN [vocab |-> v, indexes |-> indexes]
  ELSE LET s  == Head(strings)
           v1 == IF s \in DOMAIN v THEN v
                 ELSE v @@ (s :> [first |-> Cardinality(DOMAIN v), second |-> 1])
       IN  InsertEach_CountsOnce(v1, Tail(strings), Append(indexes, v1[s].first))

RECURSIVE InsertEach(_, _, _)
InsertEach(v, strings, indexes) ==
  IF strings = <<>> THEN [vocab |-> v, indexes |-> indexes]
  ELSE LET s  == Head(strings)
           v1 == IF s \in DOMAIN v THEN v
                 ELSE v @@ (s :> [first |-> Cardinality(DOMAIN v), second |-> 0])
           v2 == [v1 EXCEPT ![s].second = @ + 1]
       IN  InsertEach(v2, Tail(strings), Append(indexes, v1[s].first))

\* StringsToIndexes without the test on the number of strings
StringsToIndexes_NoLengthTest(v, strings, w) ==
  InsertEach(v, strings, <<>>)

StringsToIndexes(v, strings, w) ==
  IF Len(strings) >= 2 * w + 1
    THEN InsertEach(v, strings, <<>>)
    ELSE [vocab |-> v, indexes |-> <<>>]

\* AddDataTo with the length test one too low
AddDataTo_OneShort(l, s, w) ==
  LET r == StringsToIndexes(l.vocab, PreprocessString(s), w)
  IN  IF Len(r.indexes) >= 2 * w
        THEN [data |-> Append(l.data, r.indexes), vocab |-> r.vocab, ret |-> TRUE]
        ELSE [data |-> l.data, vocab |-> r.vocab, ret |-> FALSE]

\* AddData on a loader l = [data, vocab] with window size w
AddDataTo(l, s, w) ==
  LET r == StringsToIndexes(l.vocab, PreprocessString(s), w)
  IN  IF Len(r.indexes) >= 2 * w + 1
        THEN [data |-> Append(l.data, r.indexes), vocab |-> r.vocab, ret |-> TRUE]
        ELSE [data |-> l.data, vocab |-> r.vocab, ret |-> FALSE]

-----------------------------------------------------------------------------
(* Size, IsDone *)

RECURSIVE Size(_, _)
Size(data, w) ==
  IF data = <<>> THEN 0
  ELSE (IF Len(Head(data)) > 2 * w THEN Len(Head(data)) - 2 * w ELSE 0)
       + Size(Tail(data), w)

\* IsDone with the last-sentence test written with >=
IsDone_GreaterEqual(data, cs, cw, w) ==
  IF data = <<>> THEN TRUE
  ELSE IF cs >= Len(data) THEN TRUE
  ELSE IF cs >= Len(data) - 1 /\ cw >= Len(data[cs + 1]) - (2 * w + 1) THEN TRUE
  ELSE FALSE

IsDone(data, cs, cw, w) ==
  IF data = <<>> THEN TRUE
  ELSE IF cs >= Len(data) THEN TRUE
  ELSE IF cs >= Len(data) - 1 /\ cw > Len(data[cs + 1]) - (2 * w + 1) THEN TRUE
  ELSE FALSE

-----------------------------------------------------------------------------
(* SetOffset: the walk starts at the current sentence; data_[currentSentence_] *)
(* is unchecked, so reading it past the end of data_ is undefined.            *)

RECURSIVE SetOffsetWalk(_, _, _)
SetOffsetWalk(data, offset, cs) ==
  IF cs >= Len(data) THEN [oob |-> TRUE, offset |-> offset, cs |-> cs]
  ELSE IF offset > Len(data[cs + 1])
    THEN SetOffsetWalk(data, offset - Len(data[cs + 1]), cs + 1)
  ELSE [oob |-> FALSE, offset |-> offset, cs |-> cs]

\* The cursor SetOffset(o) leaves, for Size() > 0; cw is kept when the
\* walk runs off the corpus.
SetOffsetCursor(data, cs, cw, w, o) ==
  LET r == SetOffsetWalk(data, o % Size(data, w), cs)
  IN  IF r.oob THEN [oob |-> TRUE, cs |-> r.cs, cw |-> cw]
      ELSE IF r.offset < Len(data[r.cs + 1]) - w
        THEN [oob |-> FALSE, cs |-> r.cs, cw |-> r.offset]
      ELSE [oob |-> FALSE, cs |-> r.cs + 1, cw |-> 0]

-----------------------------------------------------------------------------
(* GetNext: data_[s][p] is unchecked; a read past the end of the sentence  *)
(* yields g[p - currentWord_], a value the program does not control; g is  *)
(* defined on the offsets that fall outside the sentence.                  *)

GetNextRead(sentence, cw, j, g) ==
  IF cw + j < Len(sentence) THEN sentence[cw + j + 1] ELSE g[j]

\* GetNextAt with the right context read without the + 1 that skips the centre
GetNextAt_CentreInContext(data, cs, cw, w, g) ==
  LET sentence == data[cs + 1]
      label    == GetNextRead(sentence, cw, w, g)
      t        == [k \in 1..(2 * w) |-> GetNextRead(sentence, cw, k - 1, g)]
      moved    == cw + 1 >= Len(sentence) - 2 * w
  IN  [ret |-> <<t, label>>,
       oob |-> cw + 2 * w >= Len(sentence),
       cs  |-> IF moved THEN cs + 1 ELSE cs,
       cw  |-> IF moved THEN 0 ELSE cw + 1]

\* GetNextAt leaving the sentence one step late (> for >=)
GetNextAt_MovesLate(data, cs, cw, w, g) ==
  LET sentence == data[cs + 1]
      label    == GetNextRead(sentence, cw, w, g)
      t        == [k \in 1..(2 * w) |->
                     IF k <= w THEN GetNextRead(sentence, cw, k - 1, g)
                               ELSE GetNextRead(sentence, cw, k, g)]
      moved    == cw + 1 > Len(sentence) - 2 * w
  IN  [ret |-> <<t, label>>,
       oob |-> cw + 2 * w >= Len(sentence),
       cs  |-> IF moved THEN cs + 1 ELSE cs,
       cw  |-> IF moved THEN 0 ELSE cw + 1]

\* For currentSentence_ inside data_: the pair returned and the cursor left
GetNextAt(data, cs, cw, w, g) ==
  LET sentence == data[cs + 1]
      label    == GetNextRead(sentence, cw, w, g)
      t        == [k \in 1..(2 * w) |->
                     IF k <= w THEN GetNextRead(sentence, cw, k - 1, g)
                               ELSE GetNextRead(sentence, cw, k, g)]
      moved    == cw + 1 >= Len(sentence) - 2 * w
  IN  [ret |-> <<t, label>>,
       oob |-> cw + 2 * w >= Len(sentence),
       cs  |-> IF moved THEN cs + 1 ELSE cs,
       cw  |-> IF moved THEN 0 ELSE cw + 1]

-----------------------------------------------------------------------------
(* WordFromIndex: the first entry, in key order, that carries the index *)

\* WordFromIndex comparing the frequency instead of the index
WordFromIndex_BySecond(v, index) ==
  LET hits == {k \in DOMAIN v : v[k].second = index}
  IN  IF hits = {} THEN <<>> ELSE LexMin(hits)

WordFromIndex(v, index) ==
  LET hits == {k \in DOMAIN v : v[k].first = index}
  IN  IF hits = {} THEN <<>> ELSE LexMin(hits)

-----------------------------------------------------------------------------
(* RemoveInfrequent: rebuild through a new loader *)

\* reverse_vocab after the loop over vocab_ in key order: a later key
\* overwrites an earlier one with the same index
ReverseVocab(v) ==
  [i \in {v[k].first : k \in DOMAIN v} |->
     LET k == LexMax({j \in DOMAIN v : v[j].first = i})
     IN  [first |-> k, second |-> v[k].second]]

\* reverse_vocab[word]: operator[] default-constructs a missing entry
ReverseLookup(rv, word) ==
  IF word \in DOMAIN rv THEN rv[word] ELSE [first |-> <<>>, second |-> 0]

\* KeptWords keeping only the words of frequency > min
RECURSIVE KeptWords_Greater(_, _, _)
KeptWords_Greater(rv, sentence, min) ==
  IF sentence = <<>> THEN <<>>
  ELSE (IF ReverseLookup(rv, Head(sentence)).second > min
          THEN ReverseLookup(rv, Head(sentence)).first \o <<" ">>
          ELSE <<>>)
       \o KeptWords_Greater(rv, Tail(sentence), min)

\* KeptWords joining the words without the blank between them
RECURSIVE KeptWords_NoSeparator(_, _, _)
KeptWords_NoSeparator(rv, sentence, min) ==
  IF sentence = <<>> THEN <<>>
  ELSE (IF ReverseLookup(rv, Head(sentence)).second >= min
          THEN ReverseLookup(rv, Head(sentence)).first
          ELSE <<>>)
       \o KeptWords_NoSeparator(rv, Tail(sentence), min)

RECURSIVE KeptWords(_, _, _)
KeptWords(rv, sentence, min) ==
  IF sentence = <<>> THEN <<>>
  ELSE (IF ReverseLookup(rv, Head(sentence)).second >= min
          THEN ReverseLookup(rv, Head(sentence)).first \o <<" ">>
          ELSE <<>>)
       \o KeptWords(rv, Tail(sentence), min)

RECURSIVE AddEach(_, _, _, _, _)
AddEach(new_loader, rv, data, min, w) ==
  IF data = <<>> THEN new_loader
  ELSE AddEach(AddDataTo(new_loader, KeptWords(rv, Head(data), min), w),
               rv, Tail(data), min, w)

\* RemoveInfrequentFrom replacing the vocabulary and leaving the old corpus
RemoveInfrequentFrom_OldData(data, v, min, w) ==
  LET n == AddEach([data |-> <<>>, vocab |-> <<>>], ReverseVocab(v), data, min, w)
  IN  [data |-> data, vocab |-> n.vocab]

\* RemoveInfrequentFrom carrying the old frequencies over to the new vocabulary
RemoveInfrequentFrom_OldFrequencies(data, v, min, w) ==
  LET n == AddEach([data |-> <<>>, vocab |-> <<>>], ReverseVocab(v), data, min, w)
  IN  [data  |-> n.data,
       vocab |-> [W \in DOMAIN n.vocab |->
                    [first |-> n.vocab[W].first, second |-> v[W].second]]]

RemoveInfrequentFrom(data, v, min, w) ==
  AddEach([data |-> <<>>, vocab |-> <<>>], ReverseVocab(v), data, min, w)

-----------------------------------------------------------------------------
(* The loader *)

WindowSizes == 0..MaxWindow

\* One past the largest index a word of Inputs can get
Indexes == 0..Cardinality(UNION {{PreprocessString(s)[i] :
                                    i \in 1..Len(PreprocessString(s))} : s \in Inputs})

Init ==
  /\ window_size_ \in WindowSizes
  /\ data_ = <<>>
  /\ vocab_ = <<>>
  /\ currentSentence_ = 0
  /\ currentWord_ = 0
  /\ fault = "none"
  /\ last = [op |-> "CBOWLoader", arg |-> window_size_, ret |-> <<>>]
  /\ usage = "fresh"
  /\ calls = 0

AddData(s) ==
  LET r == AddDataTo([data |-> data_, vocab |-> vocab_], s, window_size_)
  IN  /\ fault = "none"
      /\ Len(data_) < MaxSent
      /\ data_' = r.data
      /\ vocab_' = r.vocab
      /\ last' = [op |-> "AddData", arg |-> s, ret |-> r.ret]
      /\ UNCHANGED <<window_size_, currentSentence_, currentWord_, fault, usage, calls>>

\* Reset that shuffles and leaves the cursor where it was
Reset_KeepsCursor ==
  /\ fault = "none"
  /\ \E p \in Permutations(1..Len(data_)) :
       data_' = [i \in 1..Len(data_) |-> data_[p[i]]]
  /\ last' = [op |-> "Reset", arg |-> <<>>, ret |-> <<>>]
  /\ usage' = IF usage = "any" THEN "any" ELSE "shuffled"
  /\ calls' = 0
  /\ UNCHANGED <<window_size_, vocab_, fault, currentSentence_, currentWord_>>

Reset ==
  /\ fault = "none"
  /\ \E p \in Permutations(1..Len(data_)) :
       data_' = [i \in 1..Len(data_) |-> data_[p[i]]]
  /\ currentSentence_' = 0
  /\ currentWord_' = 0
  /\ last' = [op |-> "Reset", arg |-> <<>>, ret |-> <<>>]
  /\ usage' = IF usage = "any" THEN "any" ELSE "shuffled"
  /\ calls' = 0
  /\ UNCHANGED <<window_size_, vocab_, fault>>

\* offset % Size() with Size() = 0 is undefined: the call traps, or goes on
\* with some offset and reads data_[currentSentence_] of an empty data_.
SetOffsetDivByZero(o) ==
  /\ fault = "none"
  /\ Size(data_, window_size_) = 0
  /\ fault' = "div_by_zero"
  /\ \E cs \in {currentSentence_, currentSentence_ + 1}, cw \in {currentWord_} \cup Garbage :
       /\ currentSentence_' = cs
       /\ currentWord_' = cw
  /\ last' = [op |-> "SetOffset", arg |-> o, ret |-> <<>>]
  /\ usage' = "any"
  /\ calls' = 0
  /\ UNCHANGED <<window_size_, data_, vocab_>>

\* The walk read data_[currentSentence_] past the end of data_: the size
\* read there is not the program's, and neither is the cursor that results.
SetOffsetOutOfBounds(o) ==
  LET r == SetOffsetCursor(data_, currentSentence_, currentWord_, window_size_, o)
  IN  /\ fault = "none"
      /\ Size(data_, window_size_) > 0
      /\ r.oob
      /\ fault' = "out_of_bounds"
      /\ \E cs \in {r.cs, r.cs + 1}, cw \in {r.cw} \cup Garbage :
           /\ currentSentence_' = cs
           /\ currentWord_' = cw
      /\ last' = [op |-> "SetOffset", arg |-> o, ret |-> <<>>]
      /\ usage' = "any"
      /\ calls' = 0
      /\ UNCHANGED <<window_size_, data_, vocab_>>

SetOffsetInBounds(o) ==
  LET r == SetOffsetCursor(data_, currentSentence_, currentWord_, window_size_, o)
  IN  /\ fault = "none"
      /\ Size(data_, window_size_) > 0
      /\ ~r.oob
      /\ currentSentence_' = r.cs
      /\ currentWord_' = r.cw
      /\ last' = [op |-> "SetOffset", arg |-> o, ret |-> <<>>]
      /\ usage' = "any"
      /\ calls' = 0
      /\ UNCHANGED <<window_size_, data_, vocab_, fault>>

SetOffset(o) ==
  \/ SetOffsetDivByZero(o)
  \/ SetOffsetOutOfBounds(o)
  \/ SetOffsetInBounds(o)

RemoveInfrequent(min) ==
  LET new_loader == RemoveInfrequentFrom(data_, vocab_, min, window_size_)
  IN  /\ fault = "none"
      /\ data_' = new_loader.data
      /\ vocab_' = new_loader.vocab
      /\ last' = [op |-> "RemoveInfrequent", arg |-> min, ret |-> <<>>]
      /\ usage' = "any"
      /\ calls' = 0
      /\ UNCHANGED <<window_size_, currentSentence_, currentWord_, fault>>

\* data_[currentSentence_] past the end of data_: the reads are undefined,
\* currentWord_ is incremented and data_.at() throws std::out_of_range.
GetNextNoSentence ==
  /\ fault = "none"
  /\ currentSentence_ >= Len(data_)
  /\ fault' = "out_of_bounds"
  /\ currentWord_' = currentWord_ + 1
  /\ last' = [op |-> "GetNext", arg |-> <<>>, ret |-> "std::out_of_range"]
  /\ UNCHANGED <<window_size_, data_, vocab_, currentSentence_, usage, calls>>

GetNextInSentence ==
  /\ fault = "none"
  /\ currentSentence_ < Len(data_)
  /\ \E g \in [{j \in 0..(2 * window_size_) :
                   currentWord_ + j >= Len(data_[currentSentence_ + 1])} -> Garbage] :
       LET r == GetNextAt(data_, currentSentence_, currentWord_, window_size_, g)
       IN  /\ fault' = IF r.oob THEN "out_of_bounds" ELSE "none"
           /\ currentSentence_' = r.cs
           /\ currentWord_' = r.cw
           /\ last' = [op |-> "GetNext", arg |-> <<>>, ret |-> r.ret]
           /\ calls' = IF usage = "fresh" /\ ~r.oob THEN calls + 1 ELSE calls
  /\ UNCHANGED <<window_size_, data_, vocab_, usage>>

GetNext ==
  \/ GetNextNoSentence
  \/ GetNextInSentence

Next ==
  \/ \E s \in Inputs : AddData(s)
  \/ Reset
  \/ \E o \in 0..MaxOffset : SetOffset(o)
  \/ \E min \in 0..MaxMin : RemoveInfrequent(min)
  \/ GetNext

Spec == Init /\ [][Next]_vars

-----------------------------------------------------------------------------
(* PreprocessString on its own: a loader that holds no data and is handed  *)
(* one raw string, which it tokenizes.                                     *)

MaxStrLen == 3

\* Letters of both cases, a blank, a punctuation mark and a digit
Chars == {"a", "b", "A", "B", " ", ",", "1"}

Strings == UNION {[1..n -> Chars] : n \in 0..MaxStrLen}

InitPreprocessString ==
  /\ window_size_ \in WindowSizes
  /\ data_ = <<>>
  /\ vocab_ = <<>>
  /\ currentSentence_ = 0
  /\ currentWord_ = 0
  /\ fault = "none"
  /\ \E s \in Strings : last = [op |-> "CBOWLoader", arg |-> s, ret |-> <<>>]
  /\ usage = "fresh"
  /\ calls = 0

CallPreprocessString ==
  /\ last.op = "CBOWLoader"
  /\ last' = [op |-> "PreprocessString", arg |-> last.arg,
                ret |-> PreprocessString(last.arg)]
  /\ UNCHANGED <<window_size_, data_, vocab_, currentSentence_, currentWord_,
                 fault, usage, calls>>

NextPreprocessString == CallPreprocessString

SpecPreprocessString == InitPreprocessString /\ [][NextPreprocessString]_vars

-----------------------------------------------------------------------------
(* Reference definitions for the properties *)

SizeNow == Size(data_, window_size_)
IsDoneNow == IsDone(data_, currentSentence_, currentWord_, window_size_)

\* The window of sentence at 0-based position p: the w words before the
\* centre p + w, the w words after it, and the centre
WindowAt(sentence, p, w) ==
  << SubSeq(sentence, p + 1, p + w) \o SubSeq(sentence, p + w + 2, p + 2 * w + 1),
     sentence[p + w + 1] >>

\* The valid window positions <<s, p>> of the corpus, in scan order
RECURSIVE Positions(_, _, _)
Positions(data, w, s) ==
  IF s >= Len(data) THEN <<>>
  ELSE [p \in 1..(Len(data[s + 1]) - 2 * w) |-> <<s, p - 1>>]
       \o Positions(data, w, s + 1)

ValidPosition(data, w, s, p) ==
  /\ s < Len(data)
  /\ p + 2 * w < Len(data[s + 1])

\* The cursor after n windows of the natural scan from (0, 0)
NaturalCursor(data, w, n) ==
  LET ps == Positions(data, w, 0)
  IN  IF n < Len(ps) THEN ps[n + 1] ELSE <<Len(data), 0>>

-----------------------------------------------------------------------------
\* C1: whenever IsDone() is false the cursor designates a complete window:
\* currentSentence_ is a sentence of the corpus and currentWord_ + 2 * window_size_
\* is a position inside it.
C1_NotDoneIsCompleteWindow ==
  (fault = "none" /\ ~IsDoneNow)
    => ValidPosition(data_, window_size_, currentSentence_, currentWord_)

\* C2: on a loader that only ingested and read, IsDone() is false before each
\* of the first Size() GetNext calls and true after exactly Size() of them, and
\* the k-th call returns the k-th window of the corpus in sentence order, left
\* to right; a call that runs out of the corpus is the one after the last window.
C2_FreshScanEnumeratesWindows ==
  usage = "fresh" =>
    LET ps == Positions(data_, window_size_, 0)
    IN  /\ Len(ps) = SizeNow
        /\ calls <= SizeNow
        /\ fault # "none" => calls = SizeNow
        /\ fault = "none" =>
             /\ IsDoneNow <=> calls = SizeNow
             /\ <<currentSentence_, currentWord_>> = NaturalCursor(data_, window_size_, calls)
             /\ last.op = "GetNext" =>
                  /\ calls >= 1
                  /\ last.ret = WindowAt(data_[ps[calls][1] + 1], ps[calls][2], window_size_)

C2_Witness ==
  /\ usage = "fresh"
  /\ fault = "none"
  /\ last.op = "GetNext"
  /\ Len(data_) = 2
  /\ calls = SizeNow
  /\ SizeNow >= 3
  /\ IsDoneNow

\* C3: with the cursor at (0, 0) on a non-empty corpus, SetOffset(o) leaves
\* the cursor that (o mod Size()) GetNext calls from (0, 0) leave.
C3_SetOffsetIsNaturalScan ==
  (fault = "none" /\ SizeNow > 0 /\ currentSentence_ = 0 /\ currentWord_ = 0) =>
    \A o \in 0..MaxOffset :
      LET r == SetOffsetCursor(data_, 0, 0, window_size_, o)
      IN  /\ ~r.oob
          /\ <<r.cs, r.cw>> = NaturalCursor(data_, window_size_, o % SizeNow)

\* C4: with the cursor at (0, 0), k |-> the cursor SetOffset(k) leaves, for k
\* in 0..Size()-1, is a bijection onto the valid window positions.
C4_SetOffsetPartitionsWindows ==
  (fault = "none" /\ SizeNow > 0 /\ currentSentence_ = 0 /\ currentWord_ = 0) =>
    LET at(k) == LET r == SetOffsetCursor(data_, 0, 0, window_size_, k)
                 IN  <<r.cs, r.cw>>
        ps    == Positions(data_, window_size_, 0)
    IN  /\ {at(k) : k \in 0..(SizeNow - 1)} = {ps[i] : i \in 1..Len(ps)}
        /\ \A j, k \in 0..(SizeNow - 1) : at(j) = at(k) => j = k

\* C5: GetNext at a valid window position (s, p) returns the window_size_
\* indices before the centre p + window_size_ followed by the window_size_
\* indices after it, and the centre as label; it then moves to (s, p + 1), or to
\* (s + 1, 0) exactly when p + 1 >= len(sentence s) - 2 * window_size_.
C5_GetNextWindowAndAdvance ==
  [][ ( /\ last'.op = "GetNext"
        /\ ValidPosition(data_, window_size_, currentSentence_, currentWord_) )
      => /\ fault' = "none"
         /\ last'.ret = WindowAt(data_[currentSentence_ + 1], currentWord_, window_size_)
         /\ IF currentWord_ + 1 >= Len(data_[currentSentence_ + 1]) - 2 * window_size_
              THEN currentSentence_' = currentSentence_ + 1 /\ currentWord_' = 0
              ELSE currentSentence_' = currentSentence_ /\ currentWord_' = currentWord_ + 1
    ]_vars

\* A read inside the second sentence, after a repositioning or a pruning,
\* that stayed in the sentence
C5_Witness ==
  /\ last.op = "GetNext"
  /\ fault = "none"
  /\ window_size_ = 1
  /\ usage = "any"
  /\ currentSentence_ = 1
  /\ currentWord_ = 1

-----------------------------------------------------------------------------
(* Reference definitions for the ingestion and pruning properties *)

\* The maximal runs of letters of s, lowercased, in order
RunStarts(s) ==
  {i \in 1..Len(s) : IsAlpha(s[i]) /\ (i = 1 \/ ~IsAlpha(s[i - 1]))}

RunEnd(s, i) ==
  CHOOSE j \in i..Len(s) :
    /\ \A k \in i..j : IsAlpha(s[k])
    /\ j = Len(s) \/ ~IsAlpha(s[j + 1])

TokenRuns(s) ==
  [n \in 1..Cardinality(RunStarts(s)) |->
     LET i == CHOOSE i \in RunStarts(s) :
                Cardinality({j \in RunStarts(s) : j < i}) = n - 1
     IN  [k \in 1..(RunEnd(s, i) - i + 1) |-> ToLower(s[i + k - 1])]]

Count(seq, x) == Cardinality({i \in 1..Len(seq) : seq[i] = x})

FirstPos(seq, x) == CHOOSE i \in 1..Len(seq) : seq[i] = x /\ \A j \in 1..(i - 1) : seq[j] # x

IndexesOf(v) == {v[W].first : W \in DOMAIN v}

\* The words a sentence of indices stands for
Decode(v, sentence) ==
  [i \in 1..Len(sentence) |-> CHOOSE W \in DOMAIN v : v[W].first = sentence[i]]

\* The indices of the vocabulary are distinct and are 0..VocabSize()-1
VocabDense ==
  /\ IndexesOf(vocab_) = 0..(Cardinality(DOMAIN vocab_) - 1)
  /\ \A V, W \in DOMAIN vocab_ : vocab_[V].first = vocab_[W].first => V = W

\* C6: AddData returns false iff the input has fewer than 2 * window_size_ + 1
\* tokens; it never moves the cursor; a false return leaves corpus and
\* vocabulary as they were; a true return appends one sentence, the indices
\* of the tokens in order, at the end of the corpus.
C6_AddDataRejectsShortInput ==
  [][ last'.op = "AddData" =>
        LET toks == TokenRuns(last'.arg)
        IN  /\ last'.ret = FALSE <=> Len(toks) < 2 * window_size_ + 1
            /\ currentSentence_' = currentSentence_
            /\ currentWord_' = currentWord_
            /\ last'.ret = FALSE => data_' = data_ /\ vocab_' = vocab_
            /\ last'.ret = TRUE =>
                 /\ Len(data_') = Len(data_) + 1
                 /\ SubSeq(data_', 1, Len(data_)) = data_
                 /\ Len(data_'[Len(data_')]) = Len(toks)
                 /\ \A i \in 1..Len(toks) :
                      /\ toks[i] \in DOMAIN vocab_'
                      /\ data_'[Len(data_')][i] = vocab_'[toks[i]].first
    ]_vars

\* A two-token input refused by a loader of window size 1 that holds data
C6_Witness ==
  /\ last.op = "AddData"
  /\ last.ret = FALSE
  /\ Len(TokenRuns(last.arg)) = 2
  /\ window_size_ = 1
  /\ Len(data_) = 1
  /\ currentSentence_ = 1

\* C7: every stored sentence has at least 2 * window_size_ + 1 words.
C7_StoredSentencesLongEnough ==
  \A i \in 1..Len(data_) : Len(data_[i]) >= 2 * window_size_ + 1

\* A pruning that shortened a sentence to the minimum and kept it
C7_Witness ==
  /\ last.op = "RemoveInfrequent"
  /\ last.arg = 2
  /\ window_size_ = 1
  /\ Len(data_) = 2
  /\ DOMAIN vocab_ = {<<"a">>, <<"b">>}
  /\ data_[1] = <<0, 1, 0>>

\* C8: the indices of the vocabulary are pairwise distinct and are exactly
\* 0..VocabSize()-1; an accepted AddData gives each unseen token the size the
\* vocabulary has when it is inserted, keeps the index of every known word, and
\* adds one to a word's frequency for each of its occurrences.
C8_VocabularyIndexing ==
  [][ /\ VocabDense
      /\ VocabDense'
      /\ (last'.op = "AddData" /\ last'.ret = TRUE) =>
           LET toks == TokenRuns(last'.arg)
               old  == DOMAIN vocab_
               new  == DOMAIN vocab_' \ old
           IN  /\ DOMAIN vocab_' = old \cup {toks[i] : i \in 1..Len(toks)}
               /\ \A W \in old :
                    /\ vocab_'[W].first = vocab_[W].first
                    /\ vocab_'[W].second = vocab_[W].second + Count(toks, W)
               /\ \A W \in new :
                    /\ vocab_'[W].second = Count(toks, W)
                    /\ vocab_'[W].first = Cardinality(old)
                         + Cardinality({V \in new : FirstPos(toks, V) < FirstPos(toks, W)})
    ]_vars

\* An accepted sentence that brought new words and repeated known ones, after a pruning
C8_Witness ==
  /\ last.op = "AddData"
  /\ last.ret = TRUE
  /\ usage = "any"
  /\ Cardinality(DOMAIN vocab_) >= 3
  /\ \E W \in DOMAIN vocab_ : vocab_[W].second >= 3
  /\ \E W \in DOMAIN vocab_ : vocab_[W].second = 1

\* C9: WordFromIndex returns W for the index of every vocabulary word W, and
\* the empty string for every index no current entry carries.
C9_WordFromIndexRoundTrip ==
  /\ \A W \in DOMAIN vocab_ : WordFromIndex(vocab_, vocab_[W].first) = W
  /\ \A i \in Indexes : i \notin IndexesOf(vocab_) => WordFromIndex(vocab_, i) = <<>>

\* After a pruning that deleted the word of index 2: "b a ab b" became "b a b"
C9_Witness ==
  /\ last.op = "RemoveInfrequent"
  /\ window_size_ = 1
  /\ Len(data_) >= 1
  /\ data_[1] = <<0, 1, 0>>
  /\ DOMAIN vocab_ = {<<"a">>, <<"b">>}
  /\ vocab_[<<"b">>].first = 0
  /\ WordFromIndex(vocab_, 1) = <<"a">>
  /\ WordFromIndex(vocab_, 2) = <<>>

\* C10: after RemoveInfrequent(min) every vocabulary word had frequency >= min
\* before the call, and the corpus is the old sentences in order, each without
\* its words of frequency < min, those left with fewer than
\* 2 * window_size_ + 1 words omitted.
C10_RemoveInfrequentFilters ==
  [][ last'.op = "RemoveInfrequent" =>
        LET min      == last'.arg
            Frequent(W) == vocab_[W].second >= min
            Long(ws) == Len(ws) >= 2 * window_size_ + 1
            filtered == [i \in 1..Len(data_) |->
                           SelectSeq(Decode(vocab_, data_[i]), Frequent)]
            kept     == SelectSeq(filtered, Long)
        IN  /\ \A W \in DOMAIN vocab_' : W \in DOMAIN vocab_ /\ vocab_[W].second >= min
            /\ Len(data_') = Len(kept)
            /\ \A i \in 1..Len(kept) : Decode(vocab_', data_'[i]) = kept[i]
    ]_vars

\* Both sentences of the corpus were read; the pruning then dropped one and
\* shortened the other, "b a ab b", to "b a b"
C10_Witness ==
  /\ last.op = "RemoveInfrequent"
  /\ last.arg = 2
  /\ window_size_ = 1
  /\ currentSentence_ = 2
  /\ data_ = << <<0, 1, 0>> >>
  /\ DOMAIN vocab_ = {<<"a">>, <<"b">>}
  /\ vocab_[<<"b">>].first = 0

-----------------------------------------------------------------------------
(* Reference definitions for the effect of a pruning on the old corpus *)

\* The words of old sentence i that RemoveInfrequent(min) keeps
FilteredWords(i, min) ==
  LET Frequent(W) == vocab_[W].second >= min
  IN  SelectSeq(Decode(vocab_, data_[i]), Frequent)

\* The old sentences RemoveInfrequent(min) omits
Omitted(min) ==
  {i \in 1..Len(data_) : Len(FilteredWords(i, min)) < 2 * window_size_ + 1}

\* The occurrences of word W in the old sentences of the set S
Occurrences(W, S) ==
  UNION {{<<i, j>> : j \in {k \in 1..Len(data_[i]) : Decode(vocab_, data_[i])[k] = W}} :
           i \in S}

\* C11 as stated: after RemoveInfrequent(min) every word still in the
\* vocabulary has the frequency it had before the call.
C11_FrequenciesKept ==
  [][ last'.op = "RemoveInfrequent" =>
        \A W \in DOMAIN vocab_' : vocab_'[W].second = vocab_[W].second
    ]_vars

\* C11 as amended: after RemoveInfrequent(min) every word still in the
\* vocabulary has the frequency it had before the call less the number of its
\* occurrences in the sentences the call omitted; it is the same as before for
\* a word that occurs in no omitted sentence.
C11_FrequenciesRecounted ==
  [][ last'.op = "RemoveInfrequent" =>
        \A W \in DOMAIN vocab_' :
          /\ W \in DOMAIN vocab_
          /\ vocab_'[W].second
               = vocab_[W].second - Cardinality(Occurrences(W, Omitted(last'.arg)))
          /\ Occurrences(W, Omitted(last'.arg)) = {}
               => vocab_'[W].second = vocab_[W].second
    ]_vars

\* "a ba a" and "b a ab b" pruned with min = 2: the first sentence is omitted
\* and "a", of frequency 3 before, is left with the one occurrence in "b a b"
C11_Witness ==
  /\ last.op = "RemoveInfrequent"
  /\ last.arg = 2
  /\ window_size_ = 1
  /\ currentSentence_ = 2
  /\ Len(data_) = 1
  /\ <<"a">> \in DOMAIN vocab_
  /\ vocab_[<<"a">>].second = 1
  /\ vocab_[<<"a">>].first = 1

\* C12: RemoveInfrequent(0) keeps the set of vocabulary words, their
\* frequencies, the number of sentences and the words of every sentence, and
\* so Size() and VocabSize().
C12_RemoveInfrequentZeroKeepsContent ==
  [][ (last'.op = "RemoveInfrequent" /\ last'.arg = 0) =>
        /\ DOMAIN vocab_' = DOMAIN vocab_
        /\ \A W \in DOMAIN vocab_ : vocab_'[W].second = vocab_[W].second
        /\ Len(data_') = Len(data_)
        /\ \A i \in 1..Len(data_) :
             Decode(vocab_', data_'[i]) = Decode(vocab_, data_[i])
        /\ Size(data_', window_size_) = Size(data_, window_size_)
        /\ Cardinality(DOMAIN vocab_') = Cardinality(DOMAIN vocab_)
    ]_vars

\* RemoveInfrequent(0) on two sentences of three words or more, four words known
C12_Witness ==
  /\ last.op = "RemoveInfrequent"
  /\ last.arg = 0
  /\ window_size_ = 1
  /\ Len(data_) = 2
  /\ Cardinality(DOMAIN vocab_) = 4
  /\ vocab_[<<"a">>].first # 0

-----------------------------------------------------------------------------
\* C13: Reset leaves the multiset of sentences, the words of every sentence,
\* the vocabulary and Size() as they were, whatever permutation the shuffle
\* takes, and puts the cursor at (0, 0).
C13_ResetPermutesAndRewinds ==
  [][ last'.op = "Reset" =>
        /\ Len(data_') = Len(data_)
        /\ \A i \in 1..Len(data_) :
             /\ Count(data_', data_[i]) = Count(data_, data_[i])
             /\ Count(data_, data_'[i]) = Count(data_', data_'[i])
        /\ vocab_' = vocab_
        /\ Size(data_', window_size_) = Size(data_, window_size_)
        /\ currentSentence_' = 0
        /\ currentWord_' = 0
    ]_vars

\* A Reset, before any pruning, that put the sentence ingested second first
C13_Witness ==
  /\ last.op = "Reset"
  /\ usage = "shuffled"
  /\ Len(data_) = 2
  /\ data_[1][1] # 0
  /\ data_[2][1] = 0
  /\ Len(data_[1]) > Len(data_[2])

\* C14: the cursor SetOffset(o) leaves depends on o and the corpus alone: it
\* is the one the call leaves from (0, 0), whatever the cursor before the call.
C14_SetOffsetIgnoresOldCursor ==
  (fault = "none" /\ SizeNow > 0) =>
    \A o \in 0..MaxOffset :
      SetOffsetCursor(data_, currentSentence_, currentWord_, window_size_, o)
        = SetOffsetCursor(data_, 0, 0, window_size_, o)

\* C15: SetOffset on a non-empty corpus never indexes a sentence outside the
\* corpus, whatever the cursor before the call.
C15_SetOffsetNeverFails ==
  (last.op = "SetOffset" /\ SizeNow > 0) => fault = "none"

\* C16: SetOffset on a loader with Size() = 0 evaluates no modulo by zero and
\* leaves corpus, vocabulary and cursor as they were.
C16_SetOffsetGuardsEmptyCorpus ==
  [][ (last'.op = "SetOffset" /\ SizeNow = 0) =>
        /\ fault' \notin {"div_by_zero", "out_of_bounds"}
        /\ UNCHANGED <<data_, vocab_, currentSentence_, currentWord_>>
    ]_vars

-----------------------------------------------------------------------------
\* C17: on a loader that only ran AddData, Reset and GetNext (GetNext while
\* IsDone() is false), currentSentence_ is at most the number of sentences,
\* inside the corpus currentWord_ is at most len - 2 * window_size_ - 1, and
\* IsDone() is true exactly when the corpus is empty or currentSentence_ is the
\* number of sentences.
C17_ScanCursorInRange ==
  (usage \in {"fresh", "shuffled"} /\ fault = "none") =>
    /\ currentSentence_ <= Len(data_)
    /\ currentSentence_ < Len(data_) =>
         currentWord_ <= Len(data_[currentSentence_ + 1]) - 2 * window_size_ - 1
    /\ IsDoneNow <=> (data_ = <<>> \/ currentSentence_ = Len(data_))

\* Both sentences read to the end after a Reset
C17_Witness ==
  /\ usage = "shuffled"
  /\ fault = "none"
  /\ last.op = "GetNext"
  /\ Len(data_) = 2
  /\ currentSentence_ = 2
  /\ IsDoneNow

\* C18: the frequency of every vocabulary word is the number of occurrences
\* of its index in the corpus, and is at least 1.
C18_FrequencyCountsOccurrences ==
  \A W \in DOMAIN vocab_ :
    /\ vocab_[W].second =
         Cardinality(UNION {{<<i, j>> : j \in {k \in 1..Len(data_[i]) :
                                                  data_[i][k] = vocab_[W].first}} :
                              i \in 1..Len(data_)})
    /\ vocab_[W].second >= 1

\* A shuffle after a pruning, a word seen four times or more
C18_Witness ==
  /\ last.op = "Reset"
  /\ usage = "any"
  /\ Len(data_) = 2
  /\ data_[1][1] # 0
  /\ \E W \in DOMAIN vocab_ : vocab_[W].second >= 4
  /\ Cardinality(DOMAIN vocab_) = 2

\* C19: every index stored in the corpus is smaller than VocabSize() and is
\* the index of exactly one vocabulary entry.
C19_CorpusIndexesInVocabulary ==
  \A i \in 1..Len(data_) : \A j \in 1..Len(data_[i]) :
    /\ data_[i][j] < Cardinality(DOMAIN vocab_)
    /\ Cardinality({W \in DOMAIN vocab_ : vocab_[W].first = data_[i][j]}) = 1

\* "b a ab b" and "a b a a b" right after a pruning that deleted "ab"
C19_Witness ==
  /\ last.op = "RemoveInfrequent"
  /\ last.arg >= 1
  /\ data_ = << <<0, 1, 0>>, <<1, 0, 1, 1, 0>> >>
  /\ Cardinality(DOMAIN vocab_) = 2

\* C20: PreprocessString returns the maximal runs of letters of its input, in
\* order and lowercased; no token is empty, every character of a token is a
\* lowercase letter, and an input without a letter gives no token.
C20_TokensAreLetterRuns ==
  last.op = "PreprocessString" =>
    /\ last.ret = TokenRuns(last.arg)
    /\ \A n \in 1..Len(last.ret) :
         /\ last.ret[n] # <<>>
         /\ \A k \in 1..Len(last.ret[n]) : last.ret[n][k] \in {"a", "b"}
    /\ (\A i \in 1..Len(last.arg) : last.arg[i] \notin {"a", "b", "A", "B"})
         => last.ret = <<>>

\* "B1a": two runs of one letter, the first in upper case
C20_Witness ==
  /\ last.op = "PreprocessString"
  /\ last.arg = <<"B", "1", "a">>
  /\ last.ret = << <<"b">>, <<"a">> >>

====
